---- MODULE Spec2Model ----
(***************************************************************************)
(* Model of the mealplanner shopping-list reconciliation engine            *)
(* (core/services/shopping.py, core/models.py, core/views.py).             *)
(*                                                                         *)
(* Texts (quantity strings) are sequences of one-character strings, so     *)
(* that parsing, summing and formatting are computed rather than assumed.  *)
(***************************************************************************)
EXTENDS Integers, Sequences, FiniteSets, TLC

VARIABLES
    lists,          \* the ShoppingList rows
    items,          \* the ShoppingListItem rows (one list at most holds items)
    next_pk,        \* next primary key the item table hands out
    planned_meals,  \* the week plan's PlannedMeal rows: slot -> recipe id
    has_meal,       \* slot -> whether a PlannedMeal row exists for it
    is_pinned,      \* slot -> the row's is_pinned
    is_archived,    \* recipe id -> Recipe.is_archived
    meal_type,      \* recipe id -> Recipe.meal_type
    is_locked,      \* WeekPlan.is_locked of the week plan
    modified_at,    \* week plan -> WeekPlan.modified_at
    returned,       \* what the last shuffle_meals call returned
    edits,          \* number of edits and clock ticks made so far
    now,            \* the clock read by timezone.now()
    changes,        \* the change report returned by the last generate call
    calls,          \* number of generate_shopping_list calls made so far
    last,           \* the last operation and its arguments
    quantity_texts, \* the argument of the aggregate_quantities call
    result,         \* what the aggregate_quantities call returned
    category_order, \* the StoreCategoryOrder rows of the list's store
    sorted_groups,  \* what the get_sorted_items call returned
    race            \* the position of each of two concurrent generate calls

vars == <<lists, items, next_pk, planned_meals, has_meal, is_pinned, is_archived,
          meal_type, is_locked, modified_at, returned, edits, now, changes, calls, last,
          quantity_texts, result, category_order, sorted_groups,
          race>>

\* the PlannedMeal table
planVars == <<planned_meals, has_meal, is_pinned>>

\* the ShoppingList and ShoppingListItem tables
listVars == <<lists, items, next_pk>>

\* the get_sorted_items call on its own
sortVars == <<category_order, sorted_groups>>

\* the aggregate_quantities call on its own
aggVars == <<quantity_texts, result>>

\* the Recipe table: the catalogue the shuffle draws from
recipeVars == <<is_archived, meal_type>>

None == "None"

-----------------------------------------------------------------------------
(* Characters and elementary text functions                                *)

DigitChars == <<"0", "1", "2", "3", "4", "5", "6", "7", "8", "9">>

IsDigit(c) == \E d \in 1..10 : DigitChars[d] = c

DigitVal(c) == (CHOOSE d \in 1..10 : DigitChars[d] = c) - 1

\* the character class [\d.] of the quantity pattern
IsNumChar(c) == IsDigit(c) \/ c = "."

\* the character class \s, over the alphabet of the model
IsSpace(c) == c = " "

RECURSIVE Pow10(_)
Pow10(k) == IF k = 0 THEN 1 ELSE 10 * Pow10(k - 1)

Max(a, b) == IF a >= b THEN a ELSE b

\* str(n) of a non-negative int
RECURSIVE IntStr(_)
IntStr(n) == IF n < 10 THEN <<DigitChars[n + 1]>>
             ELSE IntStr(n \div 10) \o <<DigitChars[(n % 10) + 1]>>

\* length of the longest prefix of s whose characters are all in class cls
RECURSIVE SpanLen(_, _)
SpanLen(s, cls) ==
    IF s = <<>> THEN 0
    ELSE IF ((cls = "num" /\ IsNumChar(Head(s))) \/ (cls = "space" /\ IsSpace(Head(s))))
         THEN 1 + SpanLen(Tail(s), cls)
         ELSE 0

Drop(s, n) == SubSeq(s, n + 1, Len(s))

Take(s, n) == SubSeq(s, 1, n)

RECURSIVE Reverse(_)
Reverse(s) == IF s = <<>> THEN <<>> ELSE Reverse(Tail(s)) \o <<Head(s)>>

lstrip(s) == Drop(s, SpanLen(s, "space"))

\* str.strip()
strip(s) == Reverse(lstrip(Reverse(lstrip(s))))

-----------------------------------------------------------------------------
(* aggregate_quantities                                                    *)

\* float(text) for a text over [\d.]: a ValueError unless the text holds at
\* most one dot and at least one digit.  The value is the decimal m / 10^k.
\* Sums of such values are computed exactly; binary floating point agrees
\* with that for the fractions the model feeds in (halves).
CountDots(s) == Cardinality({i \in 1..Len(s) : s[i] = "."})

FloatOk(s) == CountDots(s) <= 1 /\ Len(s) - CountDots(s) >= 1

RECURSIVE DigitsVal(_)
DigitsVal(s) ==
    IF s = <<>> THEN 0
    ELSE IF s[Len(s)] = "." THEN DigitsVal(Take(s, Len(s) - 1))
    ELSE 10 * DigitsVal(Take(s, Len(s) - 1)) + DigitVal(s[Len(s)])

FracDigits(s) ==
    IF CountDots(s) = 0 THEN 0
    ELSE Len(s) - (CHOOSE i \in 1..Len(s) : s[i] = ".")

Float(s) == [m |-> DigitsVal(s), k |-> FracDigits(s)]

\* the second operand replaces the sum
FloatAddSecond(a, b) == b

FloatAdd(a, b) ==
    LET k == Max(a.k, b.k)
    IN  [m |-> a.m * Pow10(k - a.k) + b.m * Pow10(k - b.k), k |-> k]

RECURSIVE FloatNorm(_)
FloatNorm(v) ==
    IF v.k > 0 /\ v.m % 10 = 0 THEN FloatNorm([m |-> v.m \div 10, k |-> v.k - 1])
    ELSE v

RECURSIVE ZeroPad(_, _)
ZeroPad(s, n) == IF Len(s) >= n THEN s ELSE ZeroPad(<<"0">> \o s, n)

\* the number as the f-string renders it: int(total) when it is whole,
\* otherwise the float's repr
FormatTotal(total) ==
    LET v == FloatNorm(total)
    IN  IF v.k = 0 THEN IntStr(v.m)
        ELSE IntStr(v.m \div Pow10(v.k)) \o <<".">>
             \o ZeroPad(IntStr(v.m % Pow10(v.k)), v.k)

\* re.match(r'^([\d.]+)(\s*)(.*)$', q) on the stripped text, then float():
\* (num, unit, has_space); ok is FALSE where the code stores num = None
ParseQuantity(raw) ==
    LET q  == strip(raw)
        n1 == SpanLen(q, "num")
        r1 == Drop(q, n1)
        n2 == SpanLen(r1, "space")
        g1 == Take(q, n1)
        g3 == Drop(r1, n2)
    IN  IF n1 >= 1 /\ FloatOk(g1)
        THEN [ok |-> TRUE, num |-> Float(g1), unit |-> strip(g3), has_space |-> n2 > 0]
        ELSE [ok |-> FALSE, num |-> Float(<<>>), unit |-> q, has_space |-> FALSE]

\* by_unit / unit_spacing: one entry per unit in first-seen order
RECURSIVE GroupByUnit(_, _)
GroupByUnit(parsed, by_unit) ==
    IF parsed = <<>> THEN by_unit
    ELSE LET p == Head(parsed)
             hit == {i \in 1..Len(by_unit) : by_unit[i].unit = p.unit}
         IN  IF hit = {}
             THEN GroupByUnit(Tail(parsed),
                      Append(by_unit, [unit |-> p.unit,
                                       total |-> FloatAdd([m |-> 0, k |-> 0], p.num),
                                       has_space |-> p.has_space]))
             ELSE LET i == CHOOSE j \in hit : TRUE
                  IN  GroupByUnit(Tail(parsed),
                          [by_unit EXCEPT ![i].total = FloatAdd(@, p.num)])

\* a space always stands between number and unit
FormatUnitSpaced(g) == FormatTotal(g.total) \o <<" ">> \o g.unit

FormatUnit(g) ==
    IF g.unit # <<>>
    THEN FormatTotal(g.total) \o (IF g.has_space THEN <<" ">> ELSE <<>>) \o g.unit
    ELSE FormatTotal(g.total)

\* sep.join(parts)
RECURSIVE Join(_, _)
Join(parts, sep) ==
    IF parts = <<>> THEN <<>>
    ELSE IF Len(parts) = 1 THEN parts[1]
    ELSE parts[1] \o sep \o Join(Tail(parts), sep)

\* Counter(quantities): the distinct texts in first-seen order with counts
RECURSIVE Counter(_, _)
Counter(quantities, counts) ==
    IF quantities = <<>> THEN counts
    ELSE LET q == Head(quantities)
             hit == {i \in 1..Len(counts) : counts[i].qty = q}
         IN  IF hit = {}
             THEN Counter(Tail(quantities), Append(counts, [qty |-> q, count |-> 1]))
             ELSE LET i == CHOOSE j \in hit : TRUE
                  IN  Counter(Tail(quantities), [counts EXCEPT ![i].count = @ + 1])

\* the count is written for every text
FormatCountAlways(c) == c.qty \o <<" ", "×">> \o IntStr(c.count)

FormatCount(c) ==
    IF c.count > 1 THEN c.qty \o <<" ", "×">> \o IntStr(c.count) ELSE c.qty

aggregate_quantities(quantities) ==
    IF quantities = <<>> THEN <<>>
    ELSE IF Len(quantities) = 1 THEN quantities[1]
    ELSE LET parsed == [i \in 1..Len(quantities) |-> ParseQuantity(quantities[i])]
         IN  IF \A i \in 1..Len(parsed) : parsed[i].ok
             THEN LET by_unit == GroupByUnit(parsed, <<>>)
                      results == [i \in 1..Len(by_unit) |-> FormatUnit(by_unit[i])]
                  IN  Join(results, <<" ", "+", " ">>)
             ELSE LET counts == Counter(quantities, <<>>)
                      results == [i \in 1..Len(counts) |-> FormatCount(counts[i])]
                  IN  Join(results, <<",", " ">>)

-----------------------------------------------------------------------------
(* Bounds of the model                                                     *)

\* manual items a list holds at most
MaxManual == 1

\* generate_shopping_list calls in one behaviour
MaxCalls == 2

-----------------------------------------------------------------------------
(* Catalogue: ingredients, recipes, and the texts users type               *)

\* a null foreign key (ingredient, recipe)
NoId == 0

\* a null generated_at
NullTime == 0

IngredientTable ==
    << [name |-> "Eggs", category |-> "Dairy",  is_pantry_staple |-> FALSE],
       [name |-> "Salt", category |-> "Pantry", is_pantry_staple |-> TRUE] >>

Ingredients == DOMAIN IngredientTable

\* recipe_ingredients of each recipe, ordered by ingredient name
RecipeTable ==
    << << [ingredient |-> 1, quantity |-> <<"2">>],
          [ingredient |-> 2, quantity |-> <<"a", " ", "b", "i", "t">>] >>,
       << [ingredient |-> 1, quantity |-> <<"1", " ", "b", "o", "x">>] >> >>

Recipes == DOMAIN RecipeTable

\* the planned-meal slots of the week plan, in queryset order
\* (PlannedMeal.Meta.ordering = [week_plan, day_offset, is_supplementary])
SlotTable ==
    << [day_offset |-> 0, is_supplementary |-> FALSE],
       [day_offset |-> 0, is_supplementary |-> TRUE],
       [day_offset |-> 1, is_supplementary |-> FALSE],
       [day_offset |-> 2, is_supplementary |-> FALSE] >>

Slots == DOMAIN SlotTable

Days == {SlotTable[s].day_offset : s \in Slots}

SlotOf(day, is_supplementary) ==
    CHOOSE s \in Slots : /\ SlotTable[s].day_offset = day
                         /\ SlotTable[s].is_supplementary = is_supplementary

\* the forms posted to shopping_add: name, category, quantities, ingredient_id
ShoppingAddForms ==
    { [name |-> "Eggs large", category |-> None, quantities |-> <<"2">>, ingredient_id |-> 1],
      [name |-> "Tea",  category |-> "Dairy", quantities |-> <<>>, ingredient_id |-> NoId] }

\* collation order of the names the model uses
SortedNames == <<"Dairy", "Eggs", "Eggs large", "Pantry", "Salt", "Tea">>

Rank(name) == CHOOSE i \in DOMAIN SortedNames : SortedNames[i] = name

-----------------------------------------------------------------------------
(* Reading the list and the plan                                           *)

\* ShoppingListItem.Meta.ordering = [shopping_list, category, name]: a comes
\* strictly before b.  Where the database places a null category is a
\* property of the build (nulls_last); rows that tie come in either order.
Before(a, b, nulls_last) ==
    IF a.category = b.category THEN Rank(a.name) < Rank(b.name)
    ELSE IF a.category = None THEN ~nulls_last
    ELSE IF b.category = None THEN nulls_last
    ELSE Rank(a.category) < Rank(b.category)

LinkedIds(its) == {it.ingredient : it \in {x \in its : x.ingredient # NoId}}

\* existing_items = {item.ingredient_id: item for item in ...}: per ingredient
\* the row that comes last in queryset order; one function per possible order
ExistingItems(its) ==
    UNION { { f \in [LinkedIds(its) -> its] :
                \A i \in LinkedIds(its) :
                    /\ f[i].ingredient = i
                    /\ \A b \in its : b.ingredient = i => ~Before(f[i], b, nulls_last) }
            : nulls_last \in BOOLEAN }

\* the recipe ingredients of all planned meals that have a recipe, in order
RECURSIVE AllRecipeIngredients(_)
AllRecipeIngredients(meals) ==
    IF meals = <<>> THEN <<>>
    ELSE (IF Head(meals) = NoId THEN <<>> ELSE RecipeTable[Head(meals)])
         \o AllRecipeIngredients(Tail(meals))

RECURSIVE FirstSeen(_, _)
FirstSeen(ris, seen) ==
    IF ris = <<>> THEN seen
    ELSE IF \E j \in 1..Len(seen) : seen[j] = Head(ris).ingredient
         THEN FirstSeen(Tail(ris), seen)
         ELSE FirstSeen(Tail(ris), Append(seen, Head(ris).ingredient))

RECURSIVE QuantitiesOf(_, _)
QuantitiesOf(ris, ing) ==
    IF ris = <<>> THEN <<>>
    ELSE (IF Head(ris).ingredient = ing THEN <<Head(ris).quantity>> ELSE <<>>)
         \o QuantitiesOf(Tail(ris), ing)

\* ingredient_quantities: the ingredient ids in insertion order, and the
\* quantity texts collected for each
ingredient_quantities(meals) ==
    LET ris == AllRecipeIngredients(meals)
    IN  [order |-> FirstSeen(ris, <<>>),
         quantities |-> [i \in Ingredients |-> QuantitiesOf(ris, i)]]

PlanIngredients(meals) ==
    LET iq == ingredient_quantities(meals)
    IN  {iq.order[p] : p \in 1..Len(iq.order)}

-----------------------------------------------------------------------------
(* generate_shopping_list                                                  *)

\* ShoppingListItem(shopping_list=..., ingredient=ing, name=ing.name, ...)
NewItem(pk, ing, aggregated) ==
    [pk |-> pk, ingredient |-> ing,
     name |-> IngredientTable[ing].name,
     category |-> IngredientTable[ing].category,
     quantities |-> aggregated,
     is_checked |-> FALSE, is_manual |-> FALSE, is_pantry_override |-> FALSE,
     is_pantry_item |-> IngredientTable[ing].is_pantry_staple,
     is_starred |-> FALSE]

\* the additive branch: existing_item.quantities = aggregate([existing, new])
AugmentItem(existing_item, aggregated, is_pantry) ==
    [existing_item EXCEPT
        !.quantities = aggregate_quantities(<<@, aggregated>>),
        !.is_pantry_item = IF ~existing_item.is_manual /\ ~existing_item.is_pantry_override
                           THEN is_pantry ELSE @]

\* a delete without the is_manual filter: items.all().delete()
AfterDeleteAll(its, replace) == IF replace THEN {} ELSE its

\* a delete that does not look at the mode
AfterDeleteAlways(its, replace) == {it \in its : it.is_manual}

\* a Replace mode that forgets the delete
AfterDeleteNone(its, replace) == its

\* the rows Replace mode leaves: filter(is_manual=False).delete()
AfterDelete(its, replace) == IF replace THEN {it \in its : it.is_manual} ELSE its

\* existing_items after existing_items.clear() in Replace mode
AfterClear(existing_items, replace) == IF replace THEN {} ELSE DOMAIN existing_items

\* old_items: the non-manual existing items, captured only when tracking a replace
OldItems(existing_items, replace, return_changes) ==
    IF return_changes /\ replace
    THEN {i \in DOMAIN existing_items : ~existing_items[i].is_manual}
    ELSE {}

\* changes['counts'] is computed only under `if return_changes and replace`
Counts(updated, added, removed, replace) ==
    IF replace
    THEN <<Cardinality(DOMAIN updated), Cardinality(DOMAIN added), Cardinality(DOMAIN removed)>>
    ELSE <<0, 0, 0>>

\* One call's inputs: c = [items, next_pk, planned_meals, replace,
\* return_changes, existing_items]

\* the ingredient ids of ingredient_quantities, in insertion order
Order(c) == ingredient_quantities(c.planned_meals).order

\* the collected texts listed, not summed: ", ".join(quantities)
AggregatedJoined(c, i) ==
    Join(ingredient_quantities(c.planned_meals).quantities[i], <<",", " ">>)

\* aggregated = aggregate_quantities(quantities)
Aggregated(c, i) ==
    aggregate_quantities(ingredient_quantities(c.planned_meals).quantities[i])

\* was_in_old_list = ing.id in old_items if replace else False
WasInOldList(c, i) ==
    c.replace /\ i \in OldItems(c.existing_items, c.replace, c.return_changes)

\* the loop's first branch: existing_item and not replace
UpdatePos(c) ==
    {p \in 1..Len(Order(c)) :
        Order(c)[p] \in AfterClear(c.existing_items, c.replace) /\ ~c.replace}

\* the loop's other two branches both create an item
CreatePos(c) == (1..Len(Order(c))) \ UpdatePos(c)

\* bulk_create hands out primary keys in list order
PkOf(c, p) == c.next_pk + Cardinality({q \in CreatePos(c) : q < p})

ItemsToCreate(c) ==
    {NewItem(PkOf(c, p), Order(c)[p], Aggregated(c, Order(c)[p])) : p \in CreatePos(c)}

ItemsToUpdate(c) ==
    {AugmentItem(c.existing_items[Order(c)[p]], Aggregated(c, Order(c)[p]),
                 IngredientTable[Order(c)[p]].is_pantry_staple) : p \in UpdatePos(c)}

\* bulk_create(items_to_create), after the delete
AfterCreate(c) == AfterDelete(c.items, c.replace) \cup ItemsToCreate(c)

\* bulk_update(items_to_update, ["quantities", "is_pantry_item"]): the two
\* fields of the rows with those primary keys
BulkUpdate(rows, items_to_update) ==
    {IF \E u \in items_to_update : u.pk = row.pk
     THEN LET u == CHOOSE x \in items_to_update : x.pk = row.pk
          IN  [row EXCEPT !.quantities = u.quantities,
                          !.is_pantry_item = u.is_pantry_item]
     ELSE row : row \in rows}

AfterUpdate(c) == BulkUpdate(AfterCreate(c), ItemsToUpdate(c))

\* changes['updated'][ing.name] = (old_item['quantities'], aggregated)
UpdatedIds(c) ==
    {Order(c)[p] : p \in {q \in 1..Len(Order(c)) :
        /\ WasInOldList(c, Order(c)[q]) /\ c.return_changes
        /\ c.existing_items[Order(c)[q]].quantities # Aggregated(c, Order(c)[q])}}

\* changes['added'][ing.name] = aggregated
AddedIds(c) ==
    {Order(c)[p] : p \in {q \in CreatePos(c) :
        c.return_changes /\ ~WasInOldList(c, Order(c)[q])}}

\* changes['removed'][old_item['name']] = old_item['quantities']
RemovedIds(c) ==
    IF c.return_changes /\ c.replace
    THEN OldItems(c.existing_items, c.replace, c.return_changes)
         \ {Order(c)[p] : p \in 1..Len(Order(c))}
    ELSE {}

Updated(c) ==
    [n \in {IngredientTable[i].name : i \in UpdatedIds(c)} |->
        LET i == CHOOSE j \in UpdatedIds(c) : IngredientTable[j].name = n
        IN  <<c.existing_items[i].quantities, Aggregated(c, i)>>]

Added(c) ==
    [n \in {IngredientTable[i].name : i \in AddedIds(c)} |->
        LET i == CHOOSE j \in AddedIds(c) : IngredientTable[j].name = n
        IN  Aggregated(c, i)]

Removed(c) ==
    [n \in {c.existing_items[i].name : i \in RemovedIds(c)} |->
        LET i == CHOOSE j \in RemovedIds(c) : c.existing_items[j].name = n
        IN  c.existing_items[i].quantities]

\* the change report the call returns
Changes(c) ==
    [updated |-> Updated(c), added |-> Added(c), removed |-> Removed(c),
     counts |-> Counts(Updated(c), Added(c), Removed(c), c.replace)]

\* The persistence steps of a call, in order; "none" is a call that returns.
\* A step that raises leaves what the earlier steps wrote: the call opens no
\* transaction.
FailPoints == {"none", "save", "delete", "create", "update"}

ItemsAfter(c, fail) ==
    CASE fail = "none"   -> AfterUpdate(c)
      [] fail = "update" -> AfterCreate(c)
      [] fail = "create" -> AfterDelete(c.items, c.replace)
      [] fail = "delete" -> c.items
      [] fail = "save"   -> c.items

\* ShoppingList.Meta.ordering = ["-created_at"]: .first() is the newest row
First(rows) == CHOOSE r \in rows : \A o \in rows : o.pk <= r.pk

\* the key the list table hands out next
NextListPk(rows) == Cardinality(rows) + 1

\* ShoppingList.save, first half: a row saved with is_active set clears the
\* flag on every other row
ClearNone(rows, pk, is_active) == rows

ClearOthers(rows, pk, is_active) ==
    {IF is_active /\ r.pk # pk THEN [r EXCEPT !.is_active = FALSE] ELSE r : r \in rows}

\* ShoppingList.objects.create(week_plan=..., is_active=True) and form.save():
\* a new row, never generated
CreateList(rows, week_plan) ==
    ClearOthers(rows, NextListPk(rows), TRUE)
        \cup {[pk |-> NextListPk(rows), week_plan |-> week_plan,
               is_active |-> TRUE, generated_at |-> NullTime]}

\* the lookup of the target list: the argument, else the list of the week
\* plan, else a list created for it
ListsAlwaysCreated(rows, week_plan, shopping_list) ==
    IF shopping_list # NoId THEN rows ELSE CreateList(rows, week_plan)

ListsAfterLookup(rows, week_plan, shopping_list) ==
    IF shopping_list # NoId \/ \E r \in rows : r.week_plan = week_plan
    THEN rows ELSE CreateList(rows, week_plan)

TargetPk(rows, week_plan, shopping_list) ==
    IF shopping_list # NoId THEN shopping_list
    ELSE IF \E r \in rows : r.week_plan = week_plan
         THEN First({r \in rows : r.week_plan = week_plan}).pk
         ELSE NextListPk(rows)

\* the list is left as it was read
StampNothing(rows, pk, t) == rows

\* shopping_list.generated_at = timezone.now(); save(update_fields=["generated_at"])
StampGeneratedAt(rows, pk, t) ==
    LET target == CHOOSE r \in rows : r.pk = pk
    IN  {IF r.pk = pk THEN [r EXCEPT !.generated_at = t] ELSE r
           : r \in ClearOthers(rows, pk, target.is_active)}

\* the week plans of the fixture
WeekPlans == {1, 2}

\* the planned meals of a week plan; the second plan of the fixture is empty
PlannedMealsOf(week_plan) ==
    IF week_plan = 1 THEN planned_meals ELSE [s \in Slots |-> NoId]

generate_shopping_list(week_plan, shopping_list, replace, return_changes, fail) ==
    /\ calls < MaxCalls
    /\ \E existing_items \in ExistingItems(items) :
         LET c == [items |-> items, next_pk |-> next_pk,
                   planned_meals |-> PlannedMealsOf(week_plan),
                   replace |-> replace, return_changes |-> return_changes,
                   existing_items |-> existing_items]
             looked_up == ListsAfterLookup(lists, week_plan, shopping_list)
             pk == TargetPk(lists, week_plan, shopping_list)
         IN  /\ fail = "delete" => replace
             /\ fail = "create" => ItemsToCreate(c) # {}
             /\ fail = "update" => ItemsToUpdate(c) # {}
             /\ lists' = IF fail = "save" THEN looked_up
                         ELSE StampGeneratedAt(looked_up, pk, now)
             /\ items' = ItemsAfter(c, fail)
             /\ next_pk' = IF fail \in {"none", "update"}
                           THEN next_pk + Cardinality(ItemsToCreate(c)) ELSE next_pk
             /\ changes' = IF return_changes /\ fail = "none" THEN Changes(c) ELSE None
             /\ last' = [op |-> "generate_shopping_list", replace |-> replace,
                         return_changes |-> return_changes, failed |-> fail # "none",
                         created |-> IF fail \in {"none", "update"}
                                     THEN {it.ingredient : it \in ItemsToCreate(c)}
                                     ELSE {},
                         week_plan |-> week_plan, shopping_list |-> shopping_list,
                         target |-> pk, num_days |-> 0, recipe |-> NoId]
    /\ calls' = calls + 1
    /\ UNCHANGED <<aggVars, sortVars, race, planVars, recipeVars, is_locked, modified_at, returned, edits, now>>

-----------------------------------------------------------------------------
(* The views that edit the list and the plan                               *)

Other == [op |-> "other", replace |-> FALSE, return_changes |-> FALSE,
          failed |-> FALSE, created |-> {},
          week_plan |-> NoId, shopping_list |-> NoId, target |-> NoId, num_days |-> 0,
          recipe |-> NoId]

\* the two requests that call generate_shopping_list at once
Procs == {1, 2}

\* no call is under way
NoCalls == [pc |-> [proc \in Procs |-> "idle"], interleaved |-> FALSE]

\* bound on the rows of the list table
MaxLists == 2

\* views.shopping_list_create: a new ad-hoc list, no week plan, no items
shopping_list_create ==
    /\ Cardinality(lists) < MaxLists
    /\ lists' = CreateList(lists, NoId)
    /\ changes' = None
    /\ last' = Other
    /\ UNCHANGED <<aggVars, sortVars, race, items, next_pk, planVars, recipeVars, is_locked, modified_at, returned,
                   edits, now, calls>>

\* views.shopping_change_store: shopping_list_obj.save() after the store is
\* set; the store is not part of the model
shopping_change_store(pk) ==
    /\ \E shopping_list \in lists :
         /\ shopping_list.pk = pk
         /\ lists' = ClearOthers(lists, pk, shopping_list.is_active)
    /\ changes' = None
    /\ last' = [Other EXCEPT !.op = "shopping_change_store", !.target = pk]
    /\ UNCHANGED <<aggVars, sortVars, race, items, next_pk, planVars, recipeVars, is_locked, modified_at, returned,
                   edits, now, calls>>

\* views.shopping_add: ShoppingListItem.objects.create(..., is_manual=True)
shopping_add(form) ==
    /\ lists # {}
    /\ form.name # ""
    /\ Cardinality({it \in items : it.is_manual}) < MaxManual
    /\ items' = items \cup
         {[pk |-> next_pk, ingredient |-> form.ingredient_id, name |-> form.name,
           category |-> IF form.ingredient_id # NoId
                        THEN IngredientTable[form.ingredient_id].category
                        ELSE form.category,
           quantities |-> form.quantities,
           is_checked |-> FALSE, is_manual |-> TRUE, is_pantry_override |-> FALSE,
           is_pantry_item |-> FALSE, is_starred |-> FALSE]}
    /\ next_pk' = next_pk + 1
    /\ changes' = None
    /\ last' = Other
    /\ UNCHANGED <<aggVars, sortVars, race, lists, planVars, recipeVars, is_locked, modified_at, returned, edits, now, calls>>

\* bound on the edits and clock ticks of one behaviour
MaxEdits == 2

\* the ShoppingCategory rows
Categories == {IngredientTable[i].category : i \in Ingredients}

\* the row with the given key, changed
Saved(its, item_pk, item) == {IF it.pk = item_pk THEN item ELSE it : it \in its}

\* views.shopping_check: item.is_checked = not item.is_checked
shopping_check(item_pk) ==
    /\ edits < MaxEdits
    /\ \E item \in items :
         /\ item.pk = item_pk
         /\ items' = Saved(items, item_pk, [item EXCEPT !.is_checked = ~@])
    /\ edits' = edits + 1
    /\ changes' = None
    /\ last' = Other
    /\ UNCHANGED <<aggVars, sortVars, race, lists, next_pk, planVars, recipeVars, is_locked, modified_at, returned, now, calls>>

\* views.shopping_star: item.is_starred = not item.is_starred
shopping_star(item_pk) ==
    /\ edits < MaxEdits
    /\ \E item \in items :
         /\ item.pk = item_pk
         /\ items' = Saved(items, item_pk, [item EXCEPT !.is_starred = ~@])
    /\ edits' = edits + 1
    /\ changes' = None
    /\ last' = Other
    /\ UNCHANGED <<aggVars, sortVars, race, lists, next_pk, planVars, recipeVars, is_locked, modified_at, returned, now, calls>>

\* views.shopping_edit_category: the posted category, or none
shopping_edit_category(item_pk, category) ==
    /\ edits < MaxEdits
    /\ \E item \in items :
         /\ item.pk = item_pk
         /\ items' = Saved(items, item_pk, [item EXCEPT !.category = category])
    /\ edits' = edits + 1
    /\ changes' = None
    /\ last' = Other
    /\ UNCHANGED <<aggVars, sortVars, race, lists, next_pk, planVars, recipeVars, is_locked, modified_at, returned, now, calls>>

\* modified_at is written by WeekPlan.save() alone
TouchNever(stamps, week_plan, changed) == stamps

\* The handlers that keep WeekPlan.modified_at current are not in the source
\* tree; the tests name them ("this should trigger signal to update
\* week_plan").  A change of the plan's meals, or a save of a recipe the plan
\* uses, stamps the plan's modified_at with the clock.
Touch(stamps, week_plan, changed) ==
    IF changed THEN [stamps EXCEPT ![week_plan] = now] ELSE stamps

\* views.recipe_edit: form.save() and formset.save() write the recipe and its
\* ingredient rows; the recipe's data in the model stays as it is
recipe_edit(recipe_id) ==
    /\ modified_at' = Touch(modified_at, 1,
                            \E s \in Slots : has_meal[s] /\ planned_meals[s] = recipe_id)
    /\ changes' = None
    /\ last' = [Other EXCEPT !.op = "recipe_edit", !.recipe = recipe_id]
    /\ UNCHANGED <<aggVars, sortVars, race, planVars, listVars, recipeVars, is_locked, returned, edits, now, calls>>

\* the last reading of the clock in a behaviour
MaxNow == 3

\* time passes: timezone.now() reads a later instant
Tick ==
    /\ now < MaxNow
    /\ now' = now + 1
    /\ changes' = None
    /\ last' = Other
    /\ UNCHANGED <<aggVars, sortVars, race, planVars, listVars, recipeVars, is_locked, modified_at, returned, edits, calls>>

\* ShoppingList.is_stale
is_stale(shopping_list) ==
    /\ shopping_list.week_plan # NoId
    /\ shopping_list.generated_at # NullTime
    /\ modified_at[shopping_list.week_plan] > shopping_list.generated_at

\* WeekPlan.is_locked of a plan as created: the field's default
LockedDefault == FALSE

\* PlannedMeal.is_pinned of a row as created: the field's default
PinnedDefault == FALSE

\* views.plan_assign: the primary meal of the day gets the recipe (or none);
\* get_or_create makes the row when the day has none
plan_assign(day, recipe_id) ==
    /\ planned_meals' = [planned_meals EXCEPT ![SlotOf(day, FALSE)] = recipe_id]
    /\ has_meal' = [has_meal EXCEPT ![SlotOf(day, FALSE)] = TRUE]
    /\ is_pinned' = [is_pinned EXCEPT ![SlotOf(day, FALSE)] =
                        IF has_meal[SlotOf(day, FALSE)] THEN @ ELSE PinnedDefault]
    /\ modified_at' = Touch(modified_at, 1, TRUE)
    /\ changes' = None
    /\ last' = Other
    /\ UNCHANGED <<aggVars, sortVars, race, listVars, recipeVars, is_locked, returned, edits, now, calls>>

\* views.plan_assign_supplementary: only with a recipe_id
plan_assign_supplementary(day, recipe_id) ==
    /\ recipe_id # NoId
    /\ planned_meals' = [planned_meals EXCEPT ![SlotOf(day, TRUE)] = recipe_id]
    /\ has_meal' = [has_meal EXCEPT ![SlotOf(day, TRUE)] = TRUE]
    /\ is_pinned' = [is_pinned EXCEPT ![SlotOf(day, TRUE)] =
                        IF has_meal[SlotOf(day, TRUE)] THEN @ ELSE PinnedDefault]
    /\ modified_at' = Touch(modified_at, 1, TRUE)
    /\ changes' = None
    /\ last' = Other
    /\ UNCHANGED <<aggVars, sortVars, race, listVars, recipeVars, is_locked, returned, edits, now, calls>>

\* views.plan_clear_day: deletes every planned meal of the day
plan_clear_day(day) ==
    /\ planned_meals' = [s \in Slots |-> IF SlotTable[s].day_offset = day THEN NoId ELSE planned_meals[s]]
    /\ has_meal' = [s \in Slots |-> SlotTable[s].day_offset # day /\ has_meal[s]]
    /\ is_pinned' = [s \in Slots |-> SlotTable[s].day_offset # day /\ is_pinned[s]]
    /\ modified_at' = Touch(modified_at, 1,
                            \E s \in Slots : SlotTable[s].day_offset = day /\ has_meal[s])
    /\ changes' = None
    /\ last' = Other
    /\ UNCHANGED <<aggVars, sortVars, race, listVars, recipeVars, is_locked, returned, edits, now, calls>>

-----------------------------------------------------------------------------
(* shuffle_meals                                                           *)

\* the MealType rows
MealTypes == {1, 2}

\* the days a week plan has a primary slot for
NumDays == Cardinality({s \in Slots : ~SlotTable[s].is_supplementary})

PrimarySlot(day_offset) == SlotOf(day_offset, FALSE)

\* the recipes of the type, archived or not
RecipesOfAnyState(t) == {r \in Recipes : meal_type[r] = t}

\* recipes_by_type[t]: the recipes of the type that are not archived
RecipesOfType(t) == {r \in Recipes : meal_type[r] = t /\ ~is_archived[r]}

\* recipes_by_type.keys(): the types that have such a recipe
TypesWithRecipes == {t \in MealTypes : RecipesOfType(t) # {}}

\* every type with a recipe, whatever the previous day had
AvailableAll(previous_type_id) == TypesWithRecipes

\* available_type_ids, with the fallback to every type when none is left
AvailableTypeIds(previous_type_id) ==
    IF TypesWithRecipes \ {previous_type_id} # {}
    THEN TypesWithRecipes \ {previous_type_id}
    ELSE TypesWithRecipes

\* pinned_meals: the pinned primary meals, read before anything is deleted
PinnedDayOffsets ==
    {d \in 0..(NumDays - 1) : has_meal[PrimarySlot(d)] /\ is_pinned[PrimarySlot(d)]}

\* the recipe column once every primary meal is gone, pinned or not
AfterPrimaryDelete ==
    [s \in Slots |-> IF ~SlotTable[s].is_supplementary THEN NoId ELSE planned_meals[s]]

\* the recipe column once every unpinned meal is gone, supplementary or not
AfterAnyUnpinnedDelete ==
    [s \in Slots |-> IF ~is_pinned[s] THEN NoId ELSE planned_meals[s]]

\* filter(is_supplementary=False, is_pinned=False).delete(): the recipe column
\* once the unpinned primary meals of every day are gone
AfterUnpinnedDelete ==
    [s \in Slots |->
        IF ~SlotTable[s].is_supplementary /\ ~is_pinned[s] THEN NoId ELSE planned_meals[s]]

\* The loop from day_offset on.  recipes is the recipe column so far,
\* planned the list built so far; each outcome is one run of the random
\* choices.  A pinned meal without a recipe raises at
\* pinned_meal.recipe.meal_type: the run stops with what it has created.
RECURSIVE ShuffleFrom(_, _, _, _, _)
ShuffleFrom(day_offset, num_days, previous_type_id, recipes, planned) ==
    IF day_offset >= num_days
    THEN {[planned_meals |-> recipes, returned |-> planned, raised |-> FALSE]}
    ELSE IF day_offset \in PinnedDayOffsets
    THEN IF planned_meals[PrimarySlot(day_offset)] = NoId
         THEN {[planned_meals |-> recipes, returned |-> planned, raised |-> TRUE]}
         ELSE ShuffleFrom(day_offset + 1, num_days,
                          meal_type[planned_meals[PrimarySlot(day_offset)]], recipes,
                          Append(planned, [day_offset |-> day_offset,
                                           recipe |-> planned_meals[PrimarySlot(day_offset)],
                                           is_pinned |-> TRUE]))
    ELSE UNION { UNION { ShuffleFrom(day_offset + 1, num_days, chosen_type_id,
                                     [recipes EXCEPT ![PrimarySlot(day_offset)] = chosen_recipe],
                                     Append(planned, [day_offset |-> day_offset,
                                                      recipe |-> chosen_recipe,
                                                      is_pinned |-> PinnedDefault]))
                         : chosen_recipe \in RecipesOfType(chosen_type_id) }
                 : chosen_type_id \in AvailableTypeIds(previous_type_id) }

\* the runs of shuffle_meals(week_plan, num_days): with no recipe to draw
\* from the call returns [] after the delete
ShuffleOutcomes(num_days) ==
    IF TypesWithRecipes = {}
    THEN {[planned_meals |-> AfterUnpinnedDelete, returned |-> <<>>, raised |-> FALSE]}
    ELSE ShuffleFrom(0, num_days, NoId, AfterUnpinnedDelete, <<>>)

\* the days for which the run created a meal
CreatedDays(outcome) ==
    {d \in 0..(NumDays - 1) :
        d \notin PinnedDayOffsets /\ outcome.planned_meals[PrimarySlot(d)] # NoId}

shuffle_meals(num_days) ==
    \E outcome \in ShuffleOutcomes(num_days) :
        /\ planned_meals' = outcome.planned_meals
        /\ has_meal' = [s \in Slots |->
                          IF SlotTable[s].is_supplementary THEN has_meal[s]
                          ELSE \/ has_meal[s] /\ is_pinned[s]
                               \/ SlotTable[s].day_offset \in CreatedDays(outcome)]
        /\ UNCHANGED is_pinned
        /\ modified_at' = Touch(modified_at, 1,
                                \/ CreatedDays(outcome) # {}
                                \/ \E s \in Slots : /\ ~SlotTable[s].is_supplementary
                                                     /\ has_meal[s] /\ ~is_pinned[s])
        /\ returned' = IF outcome.raised THEN <<>> ELSE outcome.returned
        /\ changes' = None
        /\ last' = [Other EXCEPT !.op = "shuffle_meals", !.failed = outcome.raised,
                                 !.num_days = num_days]
        /\ UNCHANGED <<aggVars, sortVars, race, listVars, recipeVars, is_locked, edits, now, calls>>

\* views.plan_toggle_pin: planned_meal.is_pinned = not planned_meal.is_pinned
plan_toggle_pin(slot) ==
    /\ has_meal[slot]
    /\ is_pinned' = [is_pinned EXCEPT ![slot] = ~@]
    /\ modified_at' = Touch(modified_at, 1, TRUE)
    /\ changes' = None
    /\ last' = Other
    /\ UNCHANGED <<aggVars, sortVars, race, planned_meals, has_meal, listVars, recipeVars, is_locked, returned, edits, now, calls>>

\* the request is served whatever the lock says
RefusedNever(locked) == FALSE

\* views.plan_shuffle: if plan.is_locked, the request is refused
Refused(locked) == locked

\* views.plan_shuffle: shuffle_meals(plan) with the default num_days, the
\* days of the week, unless the plan is locked
plan_shuffle ==
    IF Refused(is_locked)
    THEN /\ changes' = None
         /\ last' = [Other EXCEPT !.op = "plan_shuffle"]
         /\ UNCHANGED <<aggVars, sortVars, race, planVars, listVars, recipeVars, is_locked, modified_at, returned,
                        edits, now, calls>>
    ELSE shuffle_meals(NumDays)

\* views.plan_toggle_lock: plan.is_locked = not plan.is_locked; plan.save()
\* stamps modified_at (auto_now)
plan_toggle_lock ==
    /\ edits < MaxEdits
    /\ edits' = edits + 1
    /\ is_locked' = ~is_locked
    /\ modified_at' = [modified_at EXCEPT ![1] = now]
    /\ changes' = None
    /\ last' = [Other EXCEPT !.op = "plan_toggle_lock"]
    /\ UNCHANGED <<aggVars, sortVars, race, planVars, listVars, recipeVars, returned, now, calls>>

-----------------------------------------------------------------------------
(* Specification                                                           *)

Init ==
    /\ lists = {}
    /\ items = {}
    /\ next_pk = 1
    /\ planned_meals = [s \in Slots |-> NoId]
    /\ has_meal = [s \in Slots |-> FALSE]
    /\ is_pinned = [s \in Slots |-> FALSE]
    /\ is_archived = [r \in Recipes |-> FALSE]
    /\ meal_type = [r \in Recipes |-> r]
    /\ is_locked = LockedDefault
    /\ modified_at = [w \in WeekPlans |-> 1]
    /\ returned = <<>>
    /\ edits = 0
    /\ now = 1
    /\ changes = None
    /\ calls = 0
    /\ last = Other
    /\ quantity_texts = <<>>
    /\ result = <<>>
    /\ category_order = <<>>
    /\ sorted_groups = <<>>
    /\ race = NoCalls

\* the days whose meals the list specifications edit
ListDays == {d \in Days : \E s \in Slots : SlotTable[s].day_offset = d /\ SlotTable[s].is_supplementary}

\* the list the calls are given as their shopping_list argument
TheList == First(lists).pk

Next ==
    \/ \E replace \in BOOLEAN, return_changes \in BOOLEAN :
           lists # {} /\ generate_shopping_list(1, TheList, replace, return_changes, "none")
    \/ (lists = {} /\ shopping_list_create)
    \/ \E form \in ShoppingAddForms : shopping_add(form)
    \/ \E day \in ListDays, recipe_id \in Recipes : plan_assign(day, recipe_id)
    \/ \E day \in ListDays, recipe_id \in Recipes : plan_assign_supplementary(day, recipe_id)
    \/ \E day \in ListDays : plan_clear_day(day)

\* every call returns
Spec == Init /\ [][Next]_vars

NextFail ==
    \/ \E replace \in BOOLEAN, return_changes \in BOOLEAN, fail \in FailPoints :
           lists # {} /\ generate_shopping_list(1, TheList, replace, return_changes, fail)
    \/ (lists = {} /\ shopping_list_create)
    \/ \E form \in ShoppingAddForms : shopping_add(form)
    \/ \E day \in ListDays, recipe_id \in Recipes : plan_assign(day, recipe_id)
    \/ \E day \in ListDays, recipe_id \in Recipes : plan_assign_supplementary(day, recipe_id)
    \/ \E day \in ListDays : plan_clear_day(day)

NextEdits ==
    \/ \E replace \in BOOLEAN :
           lists # {} /\ generate_shopping_list(1, TheList, replace, FALSE, "none")
    \/ (lists = {} /\ shopping_list_create)
    \/ \E item \in items : shopping_check(item.pk)
    \/ \E item \in items : shopping_star(item.pk)
    \/ \E item \in items, category \in Categories \cup {None} :
           shopping_edit_category(item.pk, category)
    \/ \E day \in ListDays, recipe_id \in Recipes : plan_assign(day, recipe_id)

\* the user edits the items between the calls
SpecEdits == Init /\ [][NextEdits]_vars

NextLists ==
    \/ \E week_plan \in WeekPlans, shopping_list \in {NoId} \cup {r.pk : r \in lists},
          replace \in BOOLEAN :
           generate_shopping_list(week_plan, shopping_list, replace, FALSE, "none")
    \/ shopping_list_create
    \/ \E shopping_list \in lists : shopping_change_store(shopping_list.pk)

\* lists are created, saved and generated for two week plans
SpecLists == Init /\ [][NextLists]_vars

NextStale ==
    \/ \E replace \in BOOLEAN : generate_shopping_list(1, NoId, replace, FALSE, "none")
    \/ \E day \in ListDays, recipe_id \in Recipes : plan_assign(day, recipe_id)
    \/ \E day \in ListDays : plan_clear_day(day)
    \/ shuffle_meals(Cardinality(ListDays))
    \/ \E recipe_id \in Recipes : recipe_edit(recipe_id)
    \/ Tick

\* the plan and its recipes change while time passes between the calls
SpecStale == Init /\ [][NextStale]_vars

\* the catalogues: any meal type and archive flag for each recipe
InitShuffle ==
    /\ lists = {}
    /\ items = {}
    /\ next_pk = 1
    /\ planned_meals = [s \in Slots |-> NoId]
    /\ has_meal = [s \in Slots |-> FALSE]
    /\ is_pinned = [s \in Slots |-> FALSE]
    /\ is_archived \in [Recipes -> BOOLEAN]
    /\ meal_type \in {f \in [Recipes -> MealTypes] : f[1] = 1}
    /\ is_locked = LockedDefault
    /\ modified_at = [w \in WeekPlans |-> 1]
    /\ returned = <<>>
    /\ edits = 0
    /\ now = 1
    /\ changes = None
    /\ calls = 0
    /\ last = Other
    /\ quantity_texts = <<>>
    /\ result = <<>>
    /\ category_order = <<>>
    /\ sorted_groups = <<>>
    /\ race = NoCalls

NextShuffle ==
    \/ \E num_days \in 0..NumDays : shuffle_meals(num_days)
    \/ \E slot \in Slots : plan_toggle_pin(slot)
    \/ \E day \in Days, recipe_id \in Recipes \cup {NoId} : plan_assign(day, recipe_id)
    \/ \E day \in Days : plan_clear_day(day)

\* the week plan is shuffled, pinned and edited by hand
SpecShuffle == InitShuffle /\ [][NextShuffle]_vars

NextSupp ==
    \/ \E num_days \in 0..NumDays : shuffle_meals(num_days)
    \/ \E slot \in Slots : plan_toggle_pin(slot)
    \/ \E day \in Days, recipe_id \in Recipes : plan_assign(day, recipe_id)
    \/ \E day \in ListDays, recipe_id \in Recipes : plan_assign_supplementary(day, recipe_id)

\* a plan with supplementary meals is shuffled
SpecSupp == Init /\ [][NextSupp]_vars

\* services.shopping.generate_shopping_list(week_plan, shopping_list=the list,
\* replace=True) made by two requests at once.  The call opens no transaction
\* and takes no lock, so the statements of the two calls interleave: the save
\* of generated_at with the read of existing_items, the delete of the
\* non-manual items, and the bulk_create of the new ones.
reconcile_read(proc) ==
    /\ lists # {}
    /\ race.pc[proc] = "idle"
    /\ lists' = StampGeneratedAt(lists, TheList, now)
    /\ race' = [pc |-> [race.pc EXCEPT ![proc] = "read"],
                interleaved |-> \/ race.interleaved
                                \/ \E q \in Procs \ {proc} : race.pc[q] \in {"read", "deleted"}]
    /\ changes' = None
    /\ last' = Other
    /\ UNCHANGED <<aggVars, sortVars, items, next_pk, planVars, recipeVars, is_locked,
                   modified_at, returned, edits, now, calls>>

\* shopping_list.items.filter(is_manual=False).delete()
reconcile_delete(proc) ==
    /\ race.pc[proc] = "read"
    /\ items' = AfterDelete(items, TRUE)
    /\ race' = [race EXCEPT !.pc[proc] = "deleted"]
    /\ changes' = None
    /\ last' = Other
    /\ UNCHANGED <<aggVars, sortVars, lists, next_pk, planVars, recipeVars, is_locked,
                   modified_at, returned, edits, now, calls>>

\* the call's inputs once existing_items is cleared
RaceCall ==
    [items |-> items, next_pk |-> next_pk, planned_meals |-> PlannedMealsOf(1),
     replace |-> TRUE, return_changes |-> FALSE,
     existing_items |-> CHOOSE e \in ExistingItems(AfterDelete(items, TRUE)) : TRUE]

\* the plan is read and ShoppingListItem.objects.bulk_create(items_to_create)
reconcile_create(proc) ==
    /\ race.pc[proc] = "deleted"
    /\ items' = items \cup ItemsToCreate(RaceCall)
    /\ next_pk' = next_pk + Cardinality(ItemsToCreate(RaceCall))
    /\ race' = [race EXCEPT !.pc[proc] = "done"]
    /\ changes' = None
    /\ last' = [Other EXCEPT !.op = "generate_shopping_list", !.replace = TRUE,
                             !.shopping_list = TheList, !.target = TheList, !.week_plan = 1]
    /\ UNCHANGED <<aggVars, sortVars, lists, planVars, recipeVars, is_locked,
                   modified_at, returned, edits, now, calls>>

NextRace ==
    \/ (lists = {} /\ shopping_list_create)
    \/ \E form \in ShoppingAddForms : shopping_add(form)
    \/ \E day \in ListDays, recipe_id \in Recipes : plan_assign(day, recipe_id)
    \/ \E proc \in Procs : reconcile_read(proc)
    \/ \E proc \in Procs : reconcile_delete(proc)
    \/ \E proc \in Procs : reconcile_create(proc)

\* two requests regenerate the list at the same time
SpecRace == Init /\ [][NextRace]_vars

\* the rank of a category the store has no row for, and of no category
DefaultOrder == 999

\* item.name.lower(), for the names of the items that are sorted
lower(name) ==
    CASE name = "Eggs" -> "eggs"
      [] name = "Salt" -> "salt"
      [] name = "Tea" -> "tea"
      [] OTHER -> name

\* the lowered names in the order Python compares strings
LoweredNames == <<"apple", "eggs", "salt", "tea">>

LoweredRank(name) == CHOOSE i \in DOMAIN LoweredNames : LoweredNames[i] = lower(name)

\* category_order.get(category_id, 999); an item without category has 999
CatOrder(category) ==
    IF category # None /\ category \in DOMAIN category_order
    THEN category_order[category] ELSE DefaultOrder

\* sort_key(a) < sort_key(b) for (is_checked, cat_order, name.lower())
KeyBefore(a, b) ==
    IF a.is_checked # b.is_checked THEN ~a.is_checked
    ELSE IF CatOrder(a.category) # CatOrder(b.category)
         THEN CatOrder(a.category) < CatOrder(b.category)
         ELSE LoweredRank(a.name) < LoweredRank(b.name)

\* sorted(items, key=sort_key); the names differ, so no two keys tie
RECURSIVE SortedItems(_)
SortedItems(its) ==
    IF its = {} THEN <<>>
    ELSE LET m == CHOOSE x \in its : \A y \in its \ {x} : KeyBefore(x, y)
         IN  <<m>> \o SortedItems(its \ {m})

\* cat_name of an item
CatName(item) == IF item.category # None THEN item.category ELSE "Other"

\* the grouped dict, in insertion order: an item opens the group of its
\* cat_name or is appended to it
RECURSIVE Grouped(_, _)
Grouped(sorted_items, grouped) ==
    IF sorted_items = <<>> THEN grouped
    ELSE LET item == Head(sorted_items)
             hit == {i \in 1..Len(grouped) : grouped[i].name = CatName(item)}
         IN  IF hit = {}
             THEN Grouped(Tail(sorted_items),
                          Append(grouped, [name |-> CatName(item),
                                           order |-> CatOrder(item.category),
                                           items |-> <<item.pk>>]))
             ELSE Grouped(Tail(sorted_items),
                          [grouped EXCEPT ![CHOOSE j \in hit : TRUE].items = Append(@, item.pk)])

\* sorted(grouped.items(), key=order): a stable sort, groups of one order
\* stay in insertion order
RECURSIVE SortedGroups(_)
SortedGroups(grouped) ==
    IF grouped = <<>> THEN <<>>
    ELSE LET i == CHOOSE j \in 1..Len(grouped) :
                      /\ \A k \in 1..Len(grouped) : grouped[j].order <= grouped[k].order
                      /\ \A k \in 1..(j - 1) : grouped[k].order # grouped[j].order
         IN  <<grouped[i]>> \o SortedGroups(SubSeq(grouped, 1, i - 1)
                                              \o SubSeq(grouped, i + 1, Len(grouped)))

\* services.shopping.get_sorted_items(shopping_list): reads, writes nothing
get_sorted_items ==
    /\ last.op # "get_sorted_items"
    /\ sorted_groups' = SortedGroups(Grouped(SortedItems(items), <<>>))
    /\ last' = [Other EXCEPT !.op = "get_sorted_items"]
    /\ UNCHANGED <<aggVars, category_order, race, planVars, listVars, recipeVars, is_locked,
                   modified_at, returned, edits, now, changes, calls>>

\* the rows a list may hold when it is sorted: two items without category
\* and one in each category
SortRows ==
    { [pk |-> 1, ingredient |-> NoId, name |-> "apple", category |-> None],
      [pk |-> 2, ingredient |-> 2, name |-> "Salt", category |-> "Pantry"],
      [pk |-> 3, ingredient |-> 1, name |-> "Eggs", category |-> "Dairy"],
      [pk |-> 4, ingredient |-> NoId, name |-> "Tea", category |-> None] }

\* the row as an item, ticked or not
SortItem(row, is_checked) ==
    [pk |-> row.pk, ingredient |-> row.ingredient, name |-> row.name,
     category |-> row.category, quantities |-> <<"2">>,
     is_checked |-> is_checked, is_manual |-> row.ingredient = NoId,
     is_pantry_override |-> FALSE, is_pantry_item |-> FALSE, is_starred |-> FALSE]

\* StoreCategoryOrder.sort_order values of the store
SortOrders == {1, 2, 1000}

\* any list of such items, in a store that ranks any of the categories
InitSort ==
    /\ lists = {[pk |-> 1, week_plan |-> NoId, is_active |-> TRUE, generated_at |-> NullTime]}
    /\ \E rows \in SUBSET SortRows, checked \in SUBSET SortRows :
         items = {SortItem(row, row \in checked) : row \in rows}
    /\ next_pk = 5
    /\ planned_meals = [s \in Slots |-> NoId]
    /\ has_meal = [s \in Slots |-> FALSE]
    /\ is_pinned = [s \in Slots |-> FALSE]
    /\ is_archived = [r \in Recipes |-> FALSE]
    /\ meal_type = [r \in Recipes |-> r]
    /\ is_locked = LockedDefault
    /\ modified_at = [w \in WeekPlans |-> 1]
    /\ returned = <<>>
    /\ edits = 0
    /\ now = 1
    /\ changes = None
    /\ calls = 0
    /\ last = Other
    /\ quantity_texts = <<>>
    /\ result = <<>>
    /\ category_order \in UNION {[D -> SortOrders] : D \in SUBSET Categories}
    /\ sorted_groups = <<>>
    /\ race = NoCalls

NextSort == get_sorted_items

\* get_sorted_items is applied to a list
SpecSort == InitSort /\ [][NextSort]_vars

\* the longest list of quantity texts
MaxQuantities == 3

\* the quantity texts of the lists: numbers with and without unit, with and
\* without a space, with surrounding spaces, and texts that are no number
QuantityTexts ==
    { <<"2">>,
      <<"4", "0", "0", "g">>,
      <<"2", "0", "0", "g">>,
      <<"2", " ", "g">>,
      <<"1", " ", "t", "i", "n">>,
      <<"0", ".", "5", " ", "t", "i", "n">>,
      <<" ", "3", "g", " ">>,
      <<"a", " ", "b", "i", "t">>,
      <<"1", ".", ".", "2">>,
      <<>> }

QuantityLists == UNION {[1..n -> QuantityTexts] : n \in 0..MaxQuantities}

\* a call of aggregate_quantities(quantities) with the list of the state
call_aggregate_quantities ==
    /\ last.op # "aggregate_quantities"
    /\ result' = aggregate_quantities(quantity_texts)
    /\ last' = [Other EXCEPT !.op = "aggregate_quantities"]
    /\ UNCHANGED <<quantity_texts, sortVars, race, planVars, listVars, recipeVars, is_locked, modified_at,
                   returned, edits, now, changes, calls>>

\* any list of quantity texts
InitAgg ==
    /\ lists = {}
    /\ items = {}
    /\ next_pk = 1
    /\ planned_meals = [s \in Slots |-> NoId]
    /\ has_meal = [s \in Slots |-> FALSE]
    /\ is_pinned = [s \in Slots |-> FALSE]
    /\ is_archived = [r \in Recipes |-> FALSE]
    /\ meal_type = [r \in Recipes |-> r]
    /\ is_locked = LockedDefault
    /\ modified_at = [w \in WeekPlans |-> 1]
    /\ returned = <<>>
    /\ edits = 0
    /\ now = 1
    /\ changes = None
    /\ calls = 0
    /\ last = Other
    /\ quantity_texts \in QuantityLists
    /\ result = <<>>
    /\ category_order = <<>>
    /\ sorted_groups = <<>>
    /\ race = NoCalls

NextAgg == call_aggregate_quantities

\* aggregate_quantities is applied to a list of quantity texts
SpecAgg == InitAgg /\ [][NextAgg]_vars

NextLock ==
    \/ plan_shuffle
    \/ plan_toggle_lock
    \/ \E day \in Days, recipe_id \in Recipes : plan_assign(day, recipe_id)
    \/ \E day \in Days : plan_clear_day(day)

\* the plan is locked and unlocked between the shuffle requests
SpecLock == Init /\ [][NextLock]_vars

\* a persistence step of a call may raise
SpecFail == Init /\ [][NextFail]_vars

-----------------------------------------------------------------------------
(* Claims                                                                  *)

\* the step is a generate_shopping_list call that returned
Returned(l) == l.op = "generate_shopping_list" /\ ~l.failed

\* the rows without their primary keys
Content(its) == {[it EXCEPT !.pk = NoId] : it \in its}

\* the quantity texts of ingredient i over the planned meals, slot by slot
RECURSIVE TextsFrom(_, _, _)
TextsFrom(meals, s, i) ==
    IF s > Len(meals) THEN <<>>
    ELSE LET ris == IF meals[s] = NoId THEN <<>> ELSE RecipeTable[meals[s]]
             hit == {k \in 1..Len(ris) : ris[k].ingredient = i}
         IN  (IF hit = {} THEN <<>> ELSE <<ris[CHOOSE k \in hit : TRUE].quantity>>)
             \o TextsFrom(meals, s + 1, i)

Texts(i) == TextsFrom(planned_meals, 1, i)

Planned == {i \in Ingredients : Texts(i) # <<>>}

\* C1: every item that is manual before a generate_shopping_list call (either
\* mode, with or without change tracking) is still on the list, and still
\* manual, after the call, whether or not its ingredient is in the plan.
C1_ManualItemsSurvive ==
    [][last'.op = "generate_shopping_list"
         => \A m \in items : m.is_manual
                => \E n \in items' : n.pk = m.pk /\ n.is_manual]_vars

\* a Replace call has returned on a list whose manual item is linked to an
\* ingredient of the plan; the item is still there beside the regenerated one
C1_Witness ==
    /\ Returned(last) /\ last.replace
    /\ \E m \in items : /\ m.is_manual /\ m.ingredient \in Planned
                        /\ \E n \in items : ~n.is_manual /\ n.ingredient = m.ingredient

\* C2: Replace mode is idempotent: a second Replace call right after a first,
\* plan unchanged, leaves the same items (all fields but the key) and, when it
\* reports changes, reports empty updated, added and removed maps.
C2_ReplaceIdempotent ==
    [][(Returned(last) /\ last.replace /\ Returned(last') /\ last'.replace)
         => /\ Content(items') = Content(items)
            /\ last'.return_changes
                 => /\ DOMAIN changes'.updated = {}
                    /\ DOMAIN changes'.added = {}
                    /\ DOMAIN changes'.removed = {}]_vars

\* C3: after every Replace-mode call that returns, the number of non-manual
\* items equals the number of distinct ingredients of the plan's recipes.
C3_NonManualCountIsPlanCount ==
    (Returned(last) /\ last.replace)
        => Cardinality({it \in items : ~it.is_manual}) = Cardinality(Planned)

\* a Replace call has returned on a list holding a manual item for an
\* ingredient of the plan, with two ingredients planned
C3_Witness ==
    /\ Returned(last) /\ last.replace
    /\ Cardinality(Planned) = 2
    /\ \E m \in items : m.is_manual /\ m.ingredient \in Planned

\* C4: a call on a list that holds no items creates exactly one item per
\* planned ingredient: quantities the aggregate of the ingredient's texts,
\* category and pantry flag the ingredient's, is_manual false.
C4_FirstGeneration ==
    [][(Returned(last') /\ items = {})
         => /\ Cardinality(items') = Cardinality(Planned)
            /\ \A i \in Planned : \E it \in items' :
                 /\ it.ingredient = i
                 /\ it.quantities = aggregate_quantities(Texts(i))
                 /\ it.name = IngredientTable[i].name
                 /\ it.category = IngredientTable[i].category
                 /\ it.is_pantry_item = IngredientTable[i].is_pantry_staple
                 /\ ~it.is_manual]_vars

\* the first call has run on the empty list with the first recipe planned
\* twice: eggs "2" and "2" give one item "4", salt gives one pantry item
C4_Witness ==
    /\ Returned(last) /\ calls = 1
    /\ planned_meals = <<1, 1, NoId, NoId>>
    /\ Cardinality(items) = 2
    /\ \E it \in items : it.ingredient = 1 /\ it.quantities = <<"4">> /\ ~it.is_pantry_item
    /\ \E it \in items : it.ingredient = 2 /\ it.is_pantry_item /\ ~it.is_manual

\* C5: Augment mode is strictly additive: when an Augment call that created
\* an ingredient's item is followed by a second Augment call with the same
\* plan, the item holds the aggregate of the ingredient's texts taken twice.
C5_AugmentTwiceDoubles ==
    [][(Returned(last) /\ ~last.replace /\ Returned(last') /\ ~last'.replace)
         => \A i \in last.created : \E it \in items' :
                /\ it.ingredient = i
                /\ it.quantities = aggregate_quantities(Texts(i) \o Texts(i))]_vars

\* C6: a list holds at most one item per ingredient: no two items carry the
\* same non-null ingredient.
C6_OneItemPerIngredient ==
    \A a \in items, b \in items :
        (a.ingredient # NoId /\ a.ingredient = b.ingredient) => a.pk = b.pk

\* C7: an item the list holds for a collected ingredient when the new items
\* are computed (any item in Augment mode, a manual item in Replace mode) is
\* updated in place to aggregate_quantities([existing, new]), keeps its
\* is_manual flag, and no second item is created for the ingredient.
C7_ExistingItemMergedInPlace ==
    [][Returned(last')
         => \A i \in Planned :
              LET held == {e \in items : e.ingredient = i /\ (last'.replace => e.is_manual)}
              IN  held # {}
                    => /\ \E e \in held : \E n \in items' :
                            /\ n.pk = e.pk
                            /\ n.is_manual = e.is_manual
                            /\ n.quantities = aggregate_quantities(
                                   <<e.quantities, aggregate_quantities(Texts(i))>>)
                       /\ \A n \in items' :
                            n.ingredient = i => \E e \in items : e.pk = n.pk]_vars

\* C8: a call in which a persistence step fails leaves the list's items
\* exactly as they were before the call.
C8_FailedCallChangesNothing ==
    [][(last'.op = "generate_shopping_list" /\ last'.failed) => items' = items]_vars

\* C9: the report of a tracked Replace call: added holds exactly the plan
\* ingredients with no prior item, with the new text; updated exactly those
\* with a prior non-manual item of a different text, with old and new text;
\* removed exactly the prior non-manual items of ingredients the plan does
\* not use, with the old text; no name is in two of the maps.
C9_ChangeReportExact ==
    [][(Returned(last') /\ last'.replace /\ last'.return_changes)
         => LET new(i) == aggregate_quantities(Texts(i))
                prior(i) == {e \in items : e.ingredient = i}
                generated(i) == {e \in prior(i) : ~e.is_manual}
                name(i) == IngredientTable[i].name
                addedIds == {i \in Planned : prior(i) = {}}
                updatedIds == {i \in Planned :
                                 \E e \in generated(i) : e.quantities # new(i)}
                removedIds == {i \in Ingredients \ Planned : generated(i) # {}}
            IN  /\ DOMAIN changes'.added = {name(i) : i \in addedIds}
                /\ \A i \in addedIds : changes'.added[name(i)] = new(i)
                /\ DOMAIN changes'.updated = {name(i) : i \in updatedIds}
                /\ \A i \in updatedIds : \E e \in generated(i) :
                       changes'.updated[name(i)] = <<e.quantities, new(i)>>
                /\ DOMAIN changes'.removed = {name(i) : i \in removedIds}
                /\ \A i \in removedIds : \E e \in generated(i) :
                       changes'.removed[name(i)] = e.quantities
                /\ DOMAIN changes'.added \cap DOMAIN changes'.updated = {}
                /\ DOMAIN changes'.added \cap DOMAIN changes'.removed = {}
                /\ DOMAIN changes'.updated \cap DOMAIN changes'.removed = {}]_vars

\* C10: whenever a call returns a change report, in either mode, its counts
\* are the sizes of its updated, added and removed maps.
C10_CountsAreMapSizes ==
    (Returned(last) /\ last.return_changes)
        => changes.counts = << Cardinality(DOMAIN changes.updated),
                               Cardinality(DOMAIN changes.added),
                               Cardinality(DOMAIN changes.removed) >>

\* C11: a call, in either mode, keeps the user's edits: every item whose
\* ingredient the plan still uses has, after the call, an item of that
\* ingredient with the same is_checked, is_starred and category.
C11_EditsPreserved ==
    [][Returned(last')
         => \A e \in items : e.ingredient \in Planned
              => \E n \in items' :
                    /\ n.ingredient = e.ingredient
                    /\ n.is_checked = e.is_checked
                    /\ n.is_starred = e.is_starred
                    /\ n.category = e.category]_vars

\* C14: an Augment call removes nothing: every item on the list before the
\* call is on it after the call.
C14_AugmentRemovesNothing ==
    [][(last'.op = "generate_shopping_list" /\ ~last'.replace)
         => \A e \in items : \E n \in items' : n.pk = e.pk]_vars

\* an Augment call has returned on a list that holds a manual item without
\* an ingredient and a generated item whose ingredient the plan no longer uses
C14_Witness ==
    /\ Returned(last) /\ ~last.replace
    /\ \E m \in items : m.is_manual /\ m.ingredient = NoId
    /\ \E g \in items : ~g.is_manual /\ g.ingredient \notin Planned
    /\ \E g \in items : ~g.is_manual /\ g.ingredient \in Planned

-----------------------------------------------------------------------------
(* Claims about shuffle_meals                                              *)

Shuffled(l) == l.op = "shuffle_meals"

\* the meal type of the meal the call returned for position i
TypeAt(i) == meal_type[returned[i].recipe]

\* C17: shuffle_meals keeps every pinned primary meal: it still exists after
\* the call with its day offset, its recipe and its pin, and the meal the
\* call reports for that day is the pinned one and not a created one.
C17_PinnedPreserved ==
    [][Shuffled(last')
         => \A s \in Slots :
              (~SlotTable[s].is_supplementary /\ has_meal[s] /\ is_pinned[s])
                => /\ has_meal'[s] /\ is_pinned'[s]
                   /\ planned_meals'[s] = planned_meals[s]
                   /\ \A i \in 1..Len(returned') :
                        returned'[i].day_offset = SlotTable[s].day_offset
                          => /\ returned'[i].is_pinned
                             /\ returned'[i].recipe = planned_meals[s]]_vars

\* a shuffle of the whole week around a pinned meal in the middle
C17_Witness ==
    /\ Shuffled(last) /\ Len(returned) = NumDays
    /\ ~returned[1].is_pinned /\ returned[2].is_pinned /\ ~returned[3].is_pinned
    /\ is_pinned[PrimarySlot(1)] /\ planned_meals[PrimarySlot(1)] = returned[2].recipe

\* C18: with two meal types in the catalogue of active recipes, a freshly
\* chosen meal never has the meal type of the day before it, pinned or chosen.
C18_FreshDiffersFromPrevious ==
    (Shuffled(last) /\ Cardinality(TypesWithRecipes) >= 2)
        => \A i \in 2..Len(returned) :
             ~returned[i].is_pinned => TypeAt(i) # TypeAt(i - 1)

\* a pinned first day followed by two chosen days
C18_Witness ==
    /\ Shuffled(last) /\ Cardinality(TypesWithRecipes) >= 2
    /\ Len(returned) = NumDays
    /\ returned[1].is_pinned /\ ~returned[2].is_pinned /\ ~returned[3].is_pinned

\* the types of the days next to position i of the returned week
NeighbourTypes(i) ==
    {TypeAt(j) : j \in {i - 1, i + 1} \cap (1..Len(returned))}

\* the repeat between positions i and i + 1 is forced by pinned meals
Forced(i) ==
    \/ returned[i].is_pinned /\ returned[i + 1].is_pinned
    \/ \E j \in {i, i + 1} :
         ~returned[j].is_pinned /\ TypesWithRecipes \ NeighbourTypes(j) = {}

\* C19: in a shuffled week with two meal types available no two adjacent
\* days share a meal type, the boundary from a chosen day to a pinned day
\* included, unless pinned meals force the repeat.
C19_NoAdjacentRepeat ==
    (Shuffled(last) /\ Cardinality(TypesWithRecipes) >= 2)
        => \A i \in 1..(Len(returned) - 1) :
             TypeAt(i) = TypeAt(i + 1) => Forced(i)

\* C20: with a recipe to draw from, shuffle_meals(plan, n) returns n primary
\* meals in day order, every day 0..n-1 then has its primary meal, and each
\* created one carries a recipe that is not archived and is not pinned.
C20_ReturnsOnePerDay ==
    (Shuffled(last) /\ TypesWithRecipes # {})
        => /\ ~last.failed
           /\ Len(returned) = last.num_days
           /\ \A i \in 1..Len(returned) :
                /\ returned[i].day_offset = i - 1
                /\ has_meal[PrimarySlot(i - 1)]
                /\ planned_meals[PrimarySlot(i - 1)] = returned[i].recipe
                /\ ~returned[i].is_pinned
                     => /\ returned[i].recipe # NoId
                        /\ ~is_archived[returned[i].recipe]
                        /\ ~is_pinned[PrimarySlot(i - 1)]

-----------------------------------------------------------------------------
(* Claims about staleness                                                  *)

\* C12: right after a generate_shopping_list call on a list linked to a week
\* plan, in either mode, generated_at is the call's now and the list is not
\* stale.
C12_FreshAfterGenerate ==
    Returned(last)
        => \A shopping_list \in lists :
             (shopping_list.pk = last.target /\ shopping_list.week_plan # NoId)
               => /\ shopping_list.generated_at = now
                  /\ ~is_stale(shopping_list)

\* a list that had become stale has been generated again at a later time
C12_Witness ==
    /\ Returned(last) /\ calls = 2
    /\ \E shopping_list \in lists :
         /\ shopping_list.pk = last.target /\ shopping_list.week_plan = 1
         /\ modified_at[1] > 1 /\ shopping_list.generated_at > modified_at[1]

\* the step changes data the reconciler reads for plan 1: the day
\* assignments, or a recipe assigned in the plan
Change ==
    \/ planned_meals' # planned_meals
    \/ has_meal' # has_meal
    \/ /\ last'.op = "recipe_edit"
       /\ \E s \in Slots : has_meal[s] /\ planned_meals[s] = last'.recipe

\* C13: once a list has been generated for a week plan, a change made at a
\* later time to the plan's day assignments or to a recipe assigned in it
\* makes the list stale, and the list stays stale until the next
\* generate_shopping_list call.
C13_ChangeMakesStale ==
    [][\A shopping_list \in lists :
         (shopping_list.week_plan = 1 /\ shopping_list.generated_at # NullTime)
           => /\ (Change /\ now > shopping_list.generated_at) => is_stale(shopping_list)'
              /\ (is_stale(shopping_list) /\ last'.op # "generate_shopping_list")
                    => is_stale(shopping_list)']_vars

\* a recipe of the plan was edited after the list was generated
C13_Witness ==
    /\ last.op = "recipe_edit"
    /\ \E s \in Slots : has_meal[s] /\ planned_meals[s] = last.recipe
    /\ \E shopping_list \in lists :
         shopping_list.week_plan = 1 /\ is_stale(shopping_list)

-----------------------------------------------------------------------------
(* Claims about the ShoppingList table                                     *)

\* the lists linked to the week plan
ListsOf(rows, week_plan) == {r \in rows : r.week_plan = week_plan}

\* C15: a generate_shopping_list call without a target list works on the
\* list already linked to the week plan and creates none; after the call
\* exactly one list is linked to the plan, and it is the call's list, so
\* calls for two plans work on two lists.
C15_PlanListReused ==
    [][(last'.op = "generate_shopping_list" /\ last'.shopping_list = NoId)
         => /\ Cardinality(ListsOf(lists', last'.week_plan)) = 1
            /\ \E r \in ListsOf(lists', last'.week_plan) : r.pk = last'.target
            /\ ListsOf(lists, last'.week_plan) # {}
                 => /\ {r.pk : r \in lists'} = {r.pk : r \in lists}
                    /\ \E r \in ListsOf(lists, last'.week_plan) : r.pk = last'.target]_vars

\* the second call finds the plan's list although a newer list exists
C15_Witness ==
    /\ Returned(last) /\ last.shopping_list = NoId /\ calls = MaxCalls
    /\ \E r \in ListsOf(lists, last.week_plan) :
         r.pk = last.target /\ r.pk # NextListPk(lists) - 1
    /\ \A week_plan \in WeekPlans : Cardinality(ListsOf(lists, week_plan)) <= 1

\* C16: at most one shopping list is active.
C16_OneActiveList ==
    Cardinality({r \in lists : r.is_active}) <= 1

\* an inactive list was generated again while a newer list is the active one
C16_Witness ==
    /\ Returned(last)
    /\ Cardinality(lists) >= 2
    /\ \E r \in lists : r.pk = last.target /\ ~r.is_active
    /\ \E r \in lists : r.pk # last.target /\ r.is_active

-----------------------------------------------------------------------------
(* Claims about what shuffle_meals deletes                                 *)

\* C21: shuffle_meals leaves every supplementary meal as it was, pinned or
\* not, keeps the pinned primary meals and deletes the unpinned primary
\* meals: past the shuffled days none is left, and on a shuffled day the
\* primary meal is a pinned one or one the call created.
C21_DeletesUnpinnedPrimaryOnly ==
    [][Shuffled(last')
         => \A s \in Slots :
              IF SlotTable[s].is_supplementary
              THEN /\ has_meal'[s] = has_meal[s]
                   /\ planned_meals'[s] = planned_meals[s]
                   /\ is_pinned'[s] = is_pinned[s]
              ELSE /\ (has_meal[s] /\ is_pinned[s]) => has_meal'[s]
                   /\ (has_meal[s] /\ ~is_pinned[s]
                          /\ SlotTable[s].day_offset >= last'.num_days) => ~has_meal'[s]
                   /\ (has_meal[s] /\ ~is_pinned[s] /\ has_meal'[s])
                        => /\ returned'[SlotTable[s].day_offset + 1].recipe = planned_meals'[s]
                           /\ ~returned'[SlotTable[s].day_offset + 1].is_pinned]_vars

\* one day was shuffled in a plan with an unpinned supplementary meal and a
\* pinned primary meal on a later day; the day between them has no primary
\* meal
C21_Witness ==
    /\ Shuffled(last) /\ last.num_days = 1 /\ Len(returned) = 1
    /\ \E s \in Slots : SlotTable[s].is_supplementary /\ has_meal[s] /\ ~is_pinned[s]
    /\ ~has_meal[PrimarySlot(1)]
    /\ has_meal[PrimarySlot(2)] /\ is_pinned[PrimarySlot(2)]

\* C22: with no active recipe in any meal type shuffle_meals raises nothing,
\* returns an empty list and creates no planned meal, and the plan is left
\* without an unpinned primary meal.
C22_EmptyCatalogue ==
    [][(Shuffled(last') /\ \A r \in Recipes : is_archived[r])
         => /\ ~last'.failed
            /\ returned' = <<>>
            /\ \A s \in Slots :
                 /\ has_meal'[s] => (has_meal[s] /\ planned_meals'[s] = planned_meals[s])
                 /\ (~SlotTable[s].is_supplementary /\ has_meal'[s]) => is_pinned'[s]]_vars

\* the whole week was shuffled with every recipe archived: a pinned meal is
\* all that is left
C22_Witness ==
    /\ Shuffled(last) /\ last.num_days = NumDays
    /\ \A r \in Recipes : is_archived[r]
    /\ has_meal[PrimarySlot(0)] /\ is_pinned[PrimarySlot(0)]
    /\ ~has_meal[PrimarySlot(1)] /\ ~has_meal[PrimarySlot(2)]

\* every day the call is to fill holds a pinned primary meal, and the plan
\* has no primary meal on a later day
AllDaysPinned(num_days) ==
    \A d \in 0..(NumDays - 1) :
        IF d < num_days THEN has_meal[PrimarySlot(d)] /\ is_pinned[PrimarySlot(d)]
        ELSE ~has_meal[PrimarySlot(d)]

\* C23: when every day 0..n-1 holds a pinned primary meal, shuffle_meals
\* creates and deletes no planned meal, whatever the catalogue, and returns
\* the n pinned meals in day order.
C23_AllPinnedPassThrough ==
    [][(Shuffled(last') /\ last'.num_days >= 1 /\ AllDaysPinned(last'.num_days))
         => /\ ~last'.failed
            /\ planned_meals' = planned_meals /\ has_meal' = has_meal
            /\ returned' = [i \in 1..last'.num_days |->
                              [day_offset |-> i - 1,
                               recipe |-> planned_meals[PrimarySlot(i - 1)],
                               is_pinned |-> TRUE]]]_vars

-----------------------------------------------------------------------------
(* Claims about the lock                                                   *)

\* the step is a shuffle request, refused or served
ShuffleRequest(l) == l.op \in {"plan_shuffle", "shuffle_meals"}

\* C24: a shuffle request on a locked week plan creates and deletes no
\* planned meal, and the request is refused only while the plan is locked:
\* after the lock is toggled off the request shuffles again.
C24_LockedPlanNotShuffled ==
    [][ShuffleRequest(last')
         => IF is_locked THEN planVars' = planVars /\ last'.op = "plan_shuffle"
            ELSE Shuffled(last')]_vars

\* the plan was locked and unlocked again, and the request then filled the week
C24_Witness ==
    /\ Shuffled(last) /\ ~is_locked /\ edits = 2
    /\ Len(returned) = NumDays
    /\ \A d \in 0..(NumDays - 1) : has_meal[PrimarySlot(d)]

-----------------------------------------------------------------------------
(* Claims about aggregate_quantities                                       *)

\* the call has been made: result is what it returned for quantity_texts
Aggregation == last.op = "aggregate_quantities"

\* every element has the form number, optional space, unit
AllParse(qs) == \A i \in 1..Len(qs) : ParseQuantity(qs[i]).ok

\* the units match throughout
UnitsMatch(qs) ==
    \A i, j \in 1..Len(qs) : ParseQuantity(qs[i]).unit = ParseQuantity(qs[j]).unit

\* the elements agree on the space between number and unit
SpacingMatches(qs) ==
    \A i, j \in 1..Len(qs) : ParseQuantity(qs[i]).has_space = ParseQuantity(qs[j]).has_space

\* the list in every order
Reorderings(qs) ==
    {[i \in 1..Len(qs) |-> qs[p[i]]] :
        p \in {f \in [1..Len(qs) -> 1..Len(qs)] :
                 \A i, j \in 1..Len(qs) : f[i] = f[j] => i = j}}

\* the result does not depend on the order of the elements
OrderFree(qs) == \A r \in Reorderings(qs) : aggregate_quantities(r) = result

\* aggregate([a, b, c]) = aggregate([aggregate([a, b]), c])
Associative(qs) ==
    Len(qs) = 3 => aggregate_quantities(<<aggregate_quantities(<<qs[1], qs[2]>>), qs[3]>>) = result

RECURSIVE Ascending(_)
Ascending(S) ==
    IF S = {} THEN <<>>
    ELSE LET m == CHOOSE x \in S : \A y \in S : x <= y
         IN  <<m>> \o Ascending(S \ {m})

FirstOfUnit(qs) ==
    Ascending({i \in 1..Len(qs) :
                 \A j \in 1..(i - 1) : ParseQuantity(qs[j]).unit # ParseQuantity(qs[i]).unit})

\* the sum, in tenths, of the numbers at the places in S (the numbers of the
\* lists have one decimal place at most)
RECURSIVE SumTenths(_, _)
SumTenths(qs, S) ==
    IF S = {} THEN 0
    ELSE LET i == CHOOSE x \in S : TRUE
             n == ParseQuantity(qs[i]).num
         IN  n.m * Pow10(1 - n.k) + SumTenths(qs, S \ {i})

\* a number of tenths, written without a decimal point when it is whole
TenthsText(t) ==
    IF t % 10 = 0 THEN IntStr(t \div 10)
    ELSE IntStr(t \div 10) \o <<".">> \o IntStr(t % 10)

\* the term of the unit first seen at place i
SumTerm(qs, i) ==
    TenthsText(SumTenths(qs, {j \in 1..Len(qs) :
                                ParseQuantity(qs[j]).unit = ParseQuantity(qs[i]).unit}))
        \o (IF ParseQuantity(qs[i]).has_space THEN <<" ">> ELSE <<>>)
        \o ParseQuantity(qs[i]).unit

SumTerms(qs) == [k \in 1..Len(FirstOfUnit(qs)) |-> SumTerm(qs, FirstOfUnit(qs)[k])]

\* C26: for two or more texts that all parse as number plus unit the result
\* has one term per distinct unit in first-seen order, each the sum of the
\* unit's numbers (no decimal point when whole) followed by the unit, with a
\* space iff the unit's first occurrence had one, the terms joined by " + ".
C26_SumPerUnit ==
    (Aggregation /\ Len(quantity_texts) >= 2 /\ AllParse(quantity_texts))
        => result = Join(SumTerms(quantity_texts), <<" ", "+", " ">>)

\* "400g", "1 tin", "2 g" gives "402g + 1 tin"
C26_Witness ==
    /\ Aggregation
    /\ quantity_texts = << <<"4", "0", "0", "g">>, <<"1", " ", "t", "i", "n">>,
                           <<"2", " ", "g">> >>
    /\ result = <<"4", "0", "2", "g", " ", "+", " ", "1", " ", "t", "i", "n">>

\* the places where a raw text occurs for the first time, in list order
FirstOfText(qs) ==
    Ascending({i \in 1..Len(qs) : \A j \in 1..(i - 1) : qs[j] # qs[i]})

\* the term of the text first seen at place i: the text, with its count when
\* it occurs more than once
CountTerm(qs, i) ==
    IF Cardinality({j \in 1..Len(qs) : qs[j] = qs[i]}) > 1
    THEN qs[i] \o <<" ", "×">> \o IntStr(Cardinality({j \in 1..Len(qs) : qs[j] = qs[i]}))
    ELSE qs[i]

CountTerms(qs) == [k \in 1..Len(FirstOfText(qs)) |-> CountTerm(qs, FirstOfText(qs)[k])]

\* C27: aggregate_quantities returns for every list: "" for the empty list,
\* the element unchanged for a list of one, and for a longer list with an
\* element that is no number plus unit (an empty text included) the distinct
\* raw texts in first-seen order joined by ", ", a text that occurs more
\* than once written as "<text> ×<count>".
C27_FallbackCounts ==
    Aggregation
        => /\ Len(quantity_texts) = 0 => result = <<>>
           /\ Len(quantity_texts) = 1 => result = quantity_texts[1]
           /\ (Len(quantity_texts) >= 2 /\ ~AllParse(quantity_texts))
                => result = Join(CountTerms(quantity_texts), <<",", " ">>)

\* "", "400g", "" gives " ×2, 400g"
C27_Witness ==
    /\ Aggregation
    /\ quantity_texts = << <<>>, <<"4", "0", "0", "g">>, <<>> >>
    /\ result = <<" ", "×", "2", ",", " ", "4", "0", "0", "g">>

-----------------------------------------------------------------------------
(* Claims about get_sorted_items                                           *)

\* the places of the item in the groups returned
PlacesOf(pk) ==
    {<<i, k>> \in (1..Len(sorted_groups)) \X (1..Cardinality(items)) :
        k <= Len(sorted_groups[i].items) /\ sorted_groups[i].items[k] = pk}

\* C28: get_sorted_items returns the groups in ascending rank order, every
\* item in exactly one group, every category name in one group at most, and
\* the "Other" group of the items without category after every other group,
\* the groups of categories the store does not rank included.
C28_GroupsRankedOtherLast ==
    last.op = "get_sorted_items"
        => /\ \A i, j \in 1..Len(sorted_groups) :
                i < j => /\ sorted_groups[i].order <= sorted_groups[j].order
                         /\ sorted_groups[i].name # sorted_groups[j].name
           /\ \A item \in items : Cardinality(PlacesOf(item.pk)) = 1
           /\ \A i \in 1..Len(sorted_groups) :
                sorted_groups[i].name = "Other" => i = Len(sorted_groups)

-----------------------------------------------------------------------------
(* Claims about concurrent calls                                           *)

\* the non-manual items of the ingredient
GeneratedFor(its, i) == {it \in its : ~it.is_manual /\ it.ingredient = i}

\* both calls have returned
BothDone == \A proc \in Procs : race.pc[proc] = "done"

\* C29: two Replace-mode calls for one plan and one list whose statements
\* interleave can end with more than one non-manual item for a plan
\* ingredient; when one call runs after the other they end with one item
\* at most for each ingredient, and no step of either loses a manual item.
C29_SerialCallsNoDoubleCount ==
    [][~race'.interleaved
         => /\ \A e \in items : e.is_manual => e \in items'
            /\ BothDone' => \A i \in Ingredients :
                                Cardinality(GeneratedFor(items', i)) <= 1]_vars

\* the two calls interleaved and left two non-manual items for a plan
\* ingredient, beside a manual item
C29_Witness ==
    /\ BothDone /\ race.interleaved
    /\ \E i \in Planned : Cardinality(GeneratedFor(items, i)) = 2
    /\ \E it \in items : it.is_manual

-----------------------------------------------------------------------------
(* Claims about a shuffle that fails                                       *)

\* C30: a shuffle_meals call that raises leaves the planned meals of the
\* plan as they were before the call: no unpinned primary meal is deleted
\* and no meal is created, also when a pinned primary meal has no recipe.
C30_FailedShuffleChangesNothing ==
    [][(Shuffled(last') /\ last'.failed) => planVars' = planVars]_vars

====
